---- MODULE Spec2Model ----
(***************************************************************************)
(* A model of the DeepL Translate plugin (src/__init__.py): the plugin's   *)
(* settings and conversation memory, its command and chat-event handlers   *)
(* running on the host's main thread, the background worker threads        *)
(* started by _async_translate and the deliver closures they schedule      *)
(* back onto the main thread.                                              *)
(*                                                                         *)
(* Python strings are modelled as sequences of one-character strings, so   *)
(* that str.strip, the @LANG regular expression, shlex.split and the two   *)
(* static helpers are computed character by character.                     *)
(***************************************************************************)
EXTENDS Integers, Sequences, FiniteSets, TLC

\* ------------------------------------------------------------------------
\* Bounds of the model
\* ------------------------------------------------------------------------

\* number of main-thread events (commands, chat lines, settings edits)
MaxEvents == 2

\* number of background worker threads started over a run
MaxThreads == 2

\* the helpers are given every string of up to MaxArgLen characters
MaxArgLen == 4

\* ------------------------------------------------------------------------
\* Python values
\* ------------------------------------------------------------------------

\* Python's None where a string is expected (a text is a sequence of
\* one-character strings, so this value is no text)
None == <<"None">>

\* "key not in dict" for dict.get(key, default) on a provider payload
Missing == <<"Missing">>

\* bool(x) of an optional string
Truthy(s) == s # None /\ s # <<>>

\* ------------------------------------------------------------------------
\* Characters
\* ------------------------------------------------------------------------

\* the letters of the model's alphabet, as <<upper, lower>> pairs
CasePairs ==
    {<<"A", "a">>, <<"B", "b">>, <<"D", "d">>, <<"E", "e">>, <<"F", "f">>,
     <<"G", "g">>, <<"H", "h">>, <<"I", "i">>, <<"K", "k">>, <<"L", "l">>,
     <<"N", "n">>, <<"O", "o">>, <<"P", "p">>, <<"R", "r">>, <<"S", "s">>,
     <<"U", "u">>, <<"V", "v">>, <<"Y", "y">>}

AsciiLetters == {p[1] : p \in CasePairs} \cup {p[2] : p \in CasePairs}

Whitespace == {" "}

QuoteChars == {"\"", "'"}

\* ------------------------------------------------------------------------
\* str.strip()
\* ------------------------------------------------------------------------

RECURSIVE LStrip(_)
LStrip(s) ==
    IF s # <<>> /\ Head(s) \in Whitespace THEN LStrip(Tail(s)) ELSE s

RECURSIVE RStrip(_)
RStrip(s) ==
    IF s # <<>> /\ s[Len(s)] \in Whitespace
    THEN RStrip(SubSeq(s, 1, Len(s) - 1))
    ELSE s

Strip(s) == RStrip(LStrip(s))

\* ------------------------------------------------------------------------
\* Plugin._looks_like_lang, Plugin._strip_wrapping_quotes
\* ------------------------------------------------------------------------

LangTokenMaxLen == 10

IsAlpha(ch) == ch \in AsciiLetters

\* (a variant whose length test is off by one)
LooksLikeLangShorter(token) ==
    IF token = <<>> \/ Len(token) >= LangTokenMaxLen
    THEN FALSE
    ELSE \A i \in 1..Len(token) : IsAlpha(token[i]) \/ token[i] \in {"-", "_"}

LooksLikeLang(token) ==
    IF token = <<>> \/ Len(token) > LangTokenMaxLen
    THEN FALSE
    ELSE \A i \in 1..Len(token) : IsAlpha(token[i]) \/ token[i] \in {"-", "_"}

StripWrappingQuotes(text) ==
    IF Len(text) >= 2
       /\ \E q \in QuoteChars : text[1] = q /\ text[Len(text)] = q
    THEN SubSeq(text, 2, Len(text) - 1)
    ELSE text

\* ------------------------------------------------------------------------
\* str.lower(), str.split(), shlex.split()
\* ------------------------------------------------------------------------

LowerChar(ch) ==
    IF \E p \in CasePairs : p[1] = ch
    THEN (CHOOSE p \in CasePairs : p[1] = ch)[2]
    ELSE ch

UpperChar(ch) ==
    IF \E p \in CasePairs : p[2] = ch
    THEN (CHOOSE p \in CasePairs : p[2] = ch)[1]
    ELSE ch

Upper(s) == [i \in 1..Len(s) |-> UpperChar(s[i])]

Lower(s) == [i \in 1..Len(s) |-> LowerChar(s[i])]

\* str.split(): the maximal runs of non-whitespace characters
RECURSIVE SplitFrom(_, _, _)
SplitFrom(s, tok, acc) ==
    IF s = <<>>
    THEN IF tok = <<>> THEN acc ELSE Append(acc, tok)
    ELSE IF Head(s) \in Whitespace
         THEN SplitFrom(Tail(s), <<>>, IF tok = <<>> THEN acc ELSE Append(acc, tok))
         ELSE SplitFrom(Tail(s), Append(tok, Head(s)), acc)

Split(s) == SplitFrom(s, <<>>, <<>>)

\* shlex.split(s) (posix mode, whitespace_split, no comments) on strings
\* without backslashes.  state is " " (between tokens), "a" (in a word) or
\* the quote character of the open quotation; quoted records that the
\* current token had a quotation, so that "" yields an empty token.
\* The result is [ok |-> FALSE] for ValueError("No closing quotation").
RECURSIVE ShlexFrom(_, _, _, _, _)
ShlexFrom(s, state, tok, quoted, acc) ==
    LET emit == IF tok # <<>> \/ quoted THEN Append(acc, tok) ELSE acc
    IN  IF s = <<>>
        THEN IF state \in QuoteChars
             THEN [ok |-> FALSE, tokens |-> <<>>]
             ELSE [ok |-> TRUE, tokens |-> emit]
        ELSE LET ch == Head(s)
                 rest == Tail(s)
             IN  IF state \in QuoteChars
                 THEN IF ch = state
                      THEN ShlexFrom(rest, "a", tok, TRUE, acc)
                      ELSE ShlexFrom(rest, state, Append(tok, ch), TRUE, acc)
                 ELSE IF ch \in Whitespace
                      THEN ShlexFrom(rest, " ", <<>>, FALSE, emit)
                      ELSE IF ch \in QuoteChars
                           THEN ShlexFrom(rest, ch, tok, TRUE, acc)
                           ELSE ShlexFrom(rest, "a", Append(tok, ch), quoted, acc)

ShlexSplit(s) == ShlexFrom(s, " ", <<>>, FALSE, <<>>)

\* " ".join(tokens)
RECURSIVE JoinSpace(_)
JoinSpace(tokens) ==
    IF tokens = <<>> THEN <<>>
    ELSE IF Len(tokens) = 1 THEN tokens[1]
    ELSE tokens[1] \o <<" ">> \o JoinSpace(Tail(tokens))

\* ------------------------------------------------------------------------
\* The inline shortcut pattern of _handle_outgoing_shortcut:
\*   re.match(r"^\s*@([A-Za-z][A-Za-z\-_]{1,9})\s*(.*)$", line)
\* ------------------------------------------------------------------------

ShortcutTokenMaxTail == 9

IsLangChar(ch) == ch \in AsciiLetters \/ ch \in {"-", "_"}

\* the length of the longest prefix of s made of token characters, at most n
RECURSIVE LangRun(_, _)
LangRun(s, n) ==
    IF n = 0 \/ s = <<>> \/ ~IsLangChar(Head(s)) THEN 0
    ELSE 1 + LangRun(Tail(s), n - 1)

\* [matched, target, rest]: group(1) and group(2).strip() of the match
ShortcutMatch(line) ==
    LET body == LStrip(line)
        tail == IF Len(body) >= 2 THEN SubSeq(body, 3, Len(body)) ELSE <<>>
        n    == LangRun(tail, ShortcutTokenMaxTail)
    IN  IF Len(body) >= 3 /\ body[1] = "@" /\ body[2] \in AsciiLetters /\ n >= 1
        THEN [matched |-> TRUE,
              target  |-> SubSeq(body, 2, 2 + n),
              rest    |-> Strip(SubSeq(body, 3 + n, Len(body)))]
        ELSE [matched |-> FALSE, target |-> <<>>, rest |-> <<>>]

\* ------------------------------------------------------------------------
\* The translation provider.  A response of urlopen is
\*   kind "transport"  : urlopen raises (timeout, DNS, TLS, HTTP error)
\*   kind "not_json"   : json.loads raises
\*   kind "non_object" : the body is JSON but no object (a list, null)
\*   kind "object"     : a JSON object, with
\*       message      "absent", "error" (a string containing "error") or
\*                    "plain" (a string that does not)
\*       translations "absent", "empty", "bad_item" (a list whose first
\*                    element is no object) or "item" (first element an
\*                    object with the fields text and detected below)
\*       text         Missing, None (JSON null) or a string
\*       detected     Missing, None (JSON null) or a string
\* ------------------------------------------------------------------------

Resp(kind, message, translations, text, detected) ==
    [kind |-> kind, message |-> message, translations |-> translations,
     text |-> text, detected |-> detected]

Hallo == <<"h", "a", "l", "l", "o">>

LangFR == <<"F", "R">>
LangEN == <<"E", "N">>
LangDE == <<"D", "E">>
LangENGB == <<"E", "N", "-", "G", "B">>
LangENUS == <<"E", "N", "-", "U", "S">>

RespTransport == Resp("transport", "absent", "absent", Missing, Missing)
RespNotJson   == Resp("not_json", "absent", "absent", Missing, Missing)
RespNonObject == Resp("non_object", "absent", "absent", Missing, Missing)
RespError     == Resp("object", "error", "absent", Missing, Missing)
RespEmpty     == Resp("object", "absent", "empty", Missing, Missing)
RespAbsent    == Resp("object", "plain", "absent", Missing, Missing)
RespBadItem   == Resp("object", "absent", "bad_item", Missing, Missing)
RespNoFields  == Resp("object", "absent", "item", Missing, Missing)
RespNullText  == Resp("object", "absent", "item", None, LangFR)
RespOk        == Resp("object", "absent", "item", Hallo, LangFR)
RespOkQuoted  == Resp("object", "absent", "item", <<"'">> \o Hallo \o <<"'", " ">>, Missing)
RespOkEnglish == Resp("object", "absent", "item", Hallo, <<"e", "n", "-", "G", "B">>)
RespOkWarned  == Resp("object", "error", "item", Hallo, LangFR)

\* a translation that repeats the source text, padded with whitespace
RespSame(text) == Resp("object", "absent", "item", <<" ">> \o text, LangFR)

Responses(text) ==
    {RespTransport, RespNotJson, RespNonObject, RespError, RespEmpty,
     RespAbsent, RespBadItem, RespNoFields, RespNullText,
     RespOk, RespOkQuoted, RespOkEnglish, RespOkWarned, RespSame(text)}

\* dict.get(key, default) and dict.get(key) on the first translation
GetOr(value, default) == IF value = Missing THEN default ELSE value

\* ------------------------------------------------------------------------
\* The HTTP request both clients build (params, urlencode, Request)
\* ------------------------------------------------------------------------

\* (a variant that does not strip the key)
ConfiguredKeyUnstripped(settings) == settings.api_key

\* api_key = self.settings.get("api_key", "").strip()
ConfiguredKey(settings) == Strip(settings.api_key)

\* x or y or z on optional strings
OrElse(x, y) == IF Truthy(x) THEN x ELSE y

BuildRequest(settings, api_key, text, target_lang) ==
    [auth_key |-> api_key,
     text |-> text,
     target_lang |-> OrElse(target_lang, OrElse(settings.target_lang, LangENUS)),
     preserve_formatting |-> settings.preserve_formatting]

\* ------------------------------------------------------------------------
\* Plugin._translate_via_deepl: the client of the explicit command.
\* The result is what the call does given the provider's response:
\*   sent   whether urlopen was called, and req the request it carried
\*   out    the messages given to self.output, in order
\*   raised whether an exception leaves the function
\*   ret    the returned value (None or a string) when nothing is raised
\* ------------------------------------------------------------------------

ClientResult(sent, req, out, raised, ret) ==
    [sent |-> sent, req |-> req, out |-> out, raised |-> raised, ret |-> ret]

NoRequest ==
    [auth_key |-> <<>>, text |-> <<>>, target_lang |-> <<>>,
     preserve_formatting |-> FALSE]

TranslateViaDeepl(settings, text, target_lang, resp) ==
    LET api_key == ConfiguredKey(settings)
        req == BuildRequest(settings, api_key, text, target_lang)
    IN  IF api_key = <<>>
        THEN ClientResult(FALSE, NoRequest, <<"unconfigured">>, FALSE, None)
        ELSE IF resp.kind = "transport"
        THEN ClientResult(TRUE, req, <<"request_failed">>, FALSE, None)
        ELSE IF resp.kind = "not_json"
        THEN ClientResult(TRUE, req, <<"parse_failed">>, FALSE, None)
        ELSE IF resp.kind = "non_object"
        THEN ClientResult(TRUE, req, <<>>, TRUE, None)
        ELSE IF resp.message = "error"
        THEN ClientResult(TRUE, req, <<"deepl_error">>, FALSE, None)
        ELSE IF resp.translations \in {"absent", "empty"}
        THEN ClientResult(TRUE, req, <<"no_translations">>, FALSE, None)
        ELSE IF resp.translations = "bad_item"
        THEN ClientResult(TRUE, req, <<>>, TRUE, None)
        ELSE ClientResult(TRUE, req, <<>>, FALSE, GetOr(resp.text, <<>>))

\* ------------------------------------------------------------------------
\* Plugin._translate_and_detect: the client of the background workers.
\* ret is the pair <<translated, detected>>; it calls self.output nowhere.
\* ------------------------------------------------------------------------

\* (a variant that reports failures as the user-facing client does)
TranslateAndDetectReports(settings, text, target_lang, resp) ==
    LET client == TranslateViaDeepl(settings, text, target_lang, resp)
    IN  [client EXCEPT !.ret = IF client.ret = None THEN <<None, None>>
                                ELSE <<client.ret, GetOr(resp.detected, None)>>]

TranslateAndDetect(settings, text, target_lang, resp) ==
    LET api_key == ConfiguredKey(settings)
        req == BuildRequest(settings, api_key, text, target_lang)
    IN  IF api_key = <<>>
        THEN ClientResult(FALSE, NoRequest, <<>>, FALSE, <<None, None>>)
        ELSE IF resp.kind \in {"transport", "not_json"}
        THEN ClientResult(TRUE, req, <<>>, FALSE, <<None, None>>)
        ELSE IF resp.kind = "non_object"
        THEN ClientResult(TRUE, req, <<>>, TRUE, <<None, None>>)
        ELSE IF resp.translations \in {"absent", "empty"}
        THEN ClientResult(TRUE, req, <<>>, FALSE, <<None, None>>)
        ELSE IF resp.translations = "bad_item"
        THEN ClientResult(TRUE, req, <<>>, TRUE, <<None, None>>)
        ELSE ClientResult(TRUE, req, <<>>, FALSE,
                          <<GetOr(resp.text, <<>>), GetOr(resp.detected, None)>>)

\* ------------------------------------------------------------------------
\* The host: rooms, users, and the lines and arguments the model draws
\* ------------------------------------------------------------------------

Rooms == {"lobby"}
LoginUsername == "me"
Peers == {"alice"}
Users == Peers \cup {LoginUsername}

\* Python's None where a room or user name is expected
NoName == "<none>"

Hi == <<"h", "i">>
Yo == <<"y", "o">>

ApiKey == <<"k", "e", "y">>
ApiKeys == {<<>>, <<" ">>, ApiKey}

IncomingLines == {Hi, Yo}

LineTyped      == <<"@", "F", "R", " ", "y", "o">>
LineRemembered == <<" ", "@", "E", "N", "-", "G", "B", " ">>
LinePlain      == <<"h", "i", " ", "@", "F", "R">>
LineShortToken == <<"@", "F", " ", "y", "o">>
LineLongToken  == <<"@", "d", "e", "-", "d", "e", "-", "d", "e", "-", "d", "e">>

OutgoingLines ==
    {LineTyped, LineRemembered, LinePlain, LineShortToken, LineLongToken}

ArgsTyped      == <<"F", "R", " ", "y", "o">>
ArgsRemembered == <<"'", "F", "R", "'">>
ArgsNoLang     == <<"y", "o", "1">>
ArgsEmpty      == <<" ">>
ArgsVersion    == <<"-", "V">>
ArgsHelp       == <<"?">>
ArgsUnclosed   == <<"\"", "1", " ", "y", "o">>
ArgsQuoted     == <<"1", " ", " ", "'", "y", "o", "'">>

CommandArgs ==
    {ArgsTyped, ArgsRemembered, ArgsNoLang, ArgsEmpty, ArgsVersion, ArgsHelp,
     ArgsUnclosed, ArgsQuoted}

\* ------------------------------------------------------------------------
\* State
\* ------------------------------------------------------------------------

VARIABLES
    settings,       \* self.settings
    config,         \* the host's config entry auto_incoming_target_lang
    last_public,    \* self._last_public_message: room -> <<>> or <<user, line>>
    last_private,   \* self._last_private_message: user -> <<>> or <<user, line>>
    threads,        \* the worker threads started by _async_translate
    main_queue,     \* the callbacks given to events.invoke_main_thread
    step,           \* the handler or callback being run, with what it did
    nevents,        \* the number of events the host has raised so far
    helper          \* a call of one of the static helpers on its own

vars == <<settings, config, last_public, last_private, threads, main_queue,
          step, nevents, helper>>

\* A call of a static helper: the function, its argument, the string or
\* truth value it returned, and n, the number of times the function was
\* applied to reach the argument's result.
HelperCall(fn, arg, str, ok, n) ==
    [fn |-> fn, arg |-> arg, str |-> str, ok |-> ok, n |-> n]

NoHelperCall == HelperCall("none", <<>>, <<>>, FALSE, 0)

\* (a variant that takes a missing entry for an empty message)
GetWithDefault(memory, key) ==
    IF memory[key] = <<>> THEN <<NoName, <<>>>> ELSE memory[key]

\* dict.get(key) of the two memories
Get(memory, key) == memory[key]

NoLabel == [kind |-> "none", target |-> <<>>, user |-> NoName, detected |-> <<>>]

\* one call to the host: send_public, send_private, echo_public,
\* echo_private or output
Call(op, where, msg, text, label) ==
    [op |-> op, where |-> where, msg |-> msg, text |-> text, label |-> label]

\* self.output(message)
LocalOutput(msg) == Call("output", NoName, msg, <<>>, NoLabel)

Closure(kind, chat, where, target, user, line) ==
    [kind |-> kind, chat |-> chat, where |-> where, target |-> target,
     user |-> user, line |-> line]

NoClosure == Closure("none", "none", NoName, <<>>, NoName, <<>>)

\* One run of a handler or of a scheduled callback, from its call to its
\* return: the context it runs in, what it was given (where, user, line),
\* whether it translates the text just typed ("typed") or the remembered
\* message ("remembered"), the value it returns, the calls it makes to the
\* host, the calls of urlopen it makes, the number of worker threads it
\* starts, and for deliver the thread it belongs to, its closure, whether
\* and with what it calls on_success, and the messages the thread's
\* client had given to self.output.
Outcome(handler, ctx, where, user, line, mode, ret, calls, requests) ==
    [handler |-> handler, ctx |-> ctx, where |-> where, user |-> user,
     line |-> line, mode |-> mode, ret |-> ret, calls |-> calls,
     requests |-> requests, started |-> 0, thread |-> 0,
     on_success |-> NoClosure, silent |-> FALSE, called |-> FALSE,
     result |-> <<None, None>>, reported |-> <<>>]

Idle == Outcome("idle", "main", NoName, NoName, <<>>, "none", "None", <<>>, <<>>)

\* the main thread runs one handler or scheduled callback at a time
MainIdle == step.handler = "idle"

CanStartEvent == MainIdle /\ nevents < MaxEvents

DefaultSettings ==
    [api_key |-> <<>>,
     target_lang |-> LangDE,
     preserve_formatting |-> TRUE,
     auto_translate_incoming |-> TRUE,
     auto_incoming_target_lang |-> LangENGB]

\* Plugin.__init__, followed by the host loading the stored settings
Init ==
    /\ \E key \in {<<>>, ApiKey} : settings = [DefaultSettings EXCEPT !.api_key = key]
    /\ config = LangENGB
    /\ last_public = [r \in Rooms |-> <<>>]
    /\ last_private = [u \in Users |-> <<>>]
    /\ threads = <<>>
    /\ main_queue = <<>>
    /\ step = Idle
    /\ nevents = 0
    /\ helper = NoHelperCall

\* the handler returns to the host's main loop
Return ==
    /\ ~MainIdle
    /\ step' = Idle
    /\ UNCHANGED <<settings, config, last_public, last_private, threads,
                   main_queue, nevents, helper>>

\* ------------------------------------------------------------------------
\* Plugin._async_translate: Thread(target=worker, daemon=True).start()
\* The closure on_success is [kind, chat, where, target, user, line]:
\*   kind "send"  the shortcut with trailing text
\*   kind "echo"  the shortcut without trailing text
\*   kind "auto"  an incoming line
\* ------------------------------------------------------------------------

AsyncTranslate(ths, text, target_lang, on_success, silent) ==
    Append(ths, [text |-> text, target_lang |-> target_lang,
                 on_success |-> on_success, silent |-> silent,
                 pc |-> "started", requests |-> <<>>, out |-> <<>>,
                 result |-> <<None, None>>, calls |-> 0])

\* ------------------------------------------------------------------------
\* incoming_public_chat_notification, incoming_private_chat_notification
\* ------------------------------------------------------------------------

\* (a variant that remembers the local user's own lines too)
RecordOwnLines(memory, key, user, line) == [memory EXCEPT ![key] = <<user, line>>]

Record(memory, key, user, line) ==
    IF user # LoginUsername
    THEN [memory EXCEPT ![key] = <<user, line>>]
    ELSE memory

\* whether the notifier goes on to translate the line
AutoTranslates(user) ==
    settings.auto_translate_incoming /\ user # LoginUsername

IncomingTarget == OrElse(settings.auto_incoming_target_lang, LangENGB)

IncomingPublicChatNotification(room, user, line) ==
    /\ CanStartEvent
    /\ AutoTranslates(user) => Len(threads) < MaxThreads
    /\ last_public' = Record(last_public, room, user, line)
    /\ threads' =
          IF AutoTranslates(user)
          THEN AsyncTranslate(threads, line, IncomingTarget,
                              Closure("auto", "chatroom", room, IncomingTarget, user, line),
                              TRUE)
          ELSE threads
    /\ step' = [Outcome("incoming_public", "main", room, user, line, "none", "None",
                        <<>>, <<>>)
                EXCEPT !.started = Len(threads') - Len(threads)]
    /\ nevents' = nevents + 1
    /\ UNCHANGED <<settings, config, last_private, main_queue>>

IncomingPrivateChatNotification(user, line) ==
    /\ CanStartEvent
    /\ AutoTranslates(user) => Len(threads) < MaxThreads
    /\ last_private' = Record(last_private, user, user, line)
    /\ threads' =
          IF AutoTranslates(user)
          THEN AsyncTranslate(threads, line, IncomingTarget,
                              Closure("auto", "private", user, IncomingTarget, user, line),
                              TRUE)
          ELSE threads
    /\ step' = [Outcome("incoming_private", "main", user, user, line, "none", "None",
                        <<>>, <<>>)
                EXCEPT !.started = Len(threads') - Len(threads)]
    /\ nevents' = nevents + 1
    /\ UNCHANGED <<settings, config, last_public, main_queue>>

\* ------------------------------------------------------------------------
\* Plugin._handle_outgoing_shortcut(line, context), context = (chat, where)
\* What the call does: handled is its return value, dispatch whether it
\* calls _async_translate (with text, target and on_success), out the
\* messages it gives to self.output.
\* ------------------------------------------------------------------------

ShortcutResult(handled, mode, dispatch, text, target, on_success, out) ==
    [handled |-> handled, mode |-> mode, dispatch |-> dispatch, text |-> text,
     target |-> target, on_success |-> on_success, out |-> out]

NotHandled == ShortcutResult(FALSE, "none", FALSE, <<>>, <<>>, NoClosure, <<>>)

\* (a variant that reports a shortcut without a remembered message as not
\* handled)
HandleOutgoingShortcutForgets(line, chat, where) ==
    LET match == ShortcutMatch(line)
        last == IF chat = "chatroom" THEN Get(last_public, where)
                                     ELSE Get(last_private, where)
    IN  IF ~match.matched THEN NotHandled
        ELSE IF match.rest # <<>>
        THEN ShortcutResult(TRUE, "typed", TRUE, match.rest, match.target,
                            Closure("send", chat, where, match.target, NoName, <<>>),
                            <<>>)
        ELSE IF last = <<>>
        THEN ShortcutResult(FALSE, "none", FALSE, <<>>, match.target, NoClosure,
                            <<LocalOutput("no_recent")>>)
        ELSE ShortcutResult(TRUE, "remembered", TRUE, last[2], match.target,
                            Closure("echo", chat, where, match.target, last[1], <<>>),
                            <<>>)

HandleOutgoingShortcut(line, chat, where) ==
    LET match == ShortcutMatch(line)
        target == match.target
        rest == match.rest
        last == IF chat = "chatroom" THEN Get(last_public, where)
                                     ELSE Get(last_private, where)
    IN  IF ~match.matched THEN NotHandled
        ELSE IF ~LooksLikeLang(target) THEN NotHandled
        ELSE IF rest # <<>>
        THEN ShortcutResult(TRUE, "typed", TRUE, rest, target,
                            Closure("send", chat, where, target, NoName, <<>>), <<>>)
        ELSE IF last = <<>>
        THEN ShortcutResult(TRUE, "none", FALSE, <<>>, target, NoClosure,
                            <<LocalOutput("no_recent")>>)
        ELSE ShortcutResult(TRUE, "remembered", TRUE, last[2], target,
                            Closure("echo", chat, where, target, last[1], <<>>), <<>>)

\* the handler's effect on the plugin, and the value the event returns to
\* the host: returncode["zap"] when the line was handled, None otherwise
OutgoingChatEvent(handler, chat, where, line) ==
    LET res == HandleOutgoingShortcut(line, chat, where)
    IN  /\ CanStartEvent
        /\ res.dispatch => Len(threads) < MaxThreads
        /\ threads' =
              IF res.dispatch
              THEN AsyncTranslate(threads, res.text, res.target, res.on_success, FALSE)
              ELSE threads
        /\ step' = [Outcome(handler, "main", where, NoName, line, res.mode,
                            IF res.handled THEN "zap" ELSE "None", res.out, <<>>)
                    EXCEPT !.started = Len(threads') - Len(threads)]
        /\ nevents' = nevents + 1
        /\ UNCHANGED <<settings, config, last_public, last_private, main_queue>>

OutgoingPublicChatEvent(room, line) ==
    OutgoingChatEvent("outgoing_public", "chatroom", room, line)

OutgoingPrivateChatEvent(user, line) ==
    OutgoingChatEvent("outgoing_private", "private", user, line)

\* ------------------------------------------------------------------------
\* The worker thread of _async_translate, the closure deliver and the
\* closures on_success
\* ------------------------------------------------------------------------

\* what remains of a thread that has ended: how it ended (pc) and how
\* many times its on_success was called
Ended(th, pc, calls) ==
    [th EXCEPT !.pc = pc, !.calls = calls, !.text = <<>>, !.target_lang = <<>>,
               !.result = <<None, None>>, !.requests = <<>>, !.out = <<>>,
               !.on_success = Closure(th.on_success.kind, th.on_success.chat,
                                      th.on_success.where, <<>>, NoName, <<>>)]

\* (a variant that ignores silent)
DeliverCallsOnSuccessOnly(result, silent) == result[1] # None

\* whether deliver calls on_success
DeliverCalls(result, silent) == ~(result[1] = None /\ ~silent)

\* (a variant whose closures all send the translation)
OnSuccessSends(cb, result) ==
    IF ~Truthy(result[1]) THEN <<>>
    ELSE <<Call(IF cb.chat = "chatroom" THEN "send_public" ELSE "send_private",
                cb.where, "translated", StripWrappingQuotes(Strip(result[1])),
                NoLabel)>>

\* (a variant whose notifier does not look at the detected language)
OnSuccessIgnoresDetected(cb, result) ==
    IF cb.kind # "auto" \/ ~Truthy(result[1]) \/ Strip(result[1]) = Strip(cb.line)
    THEN IF cb.kind = "auto" THEN <<>> ELSE OnSuccessSends(cb, result)
    ELSE <<Call(IF cb.chat = "chatroom" THEN "echo_public" ELSE "echo_private",
                cb.where, "translated", result[1],
                [kind |-> "auto", target |-> cb.target, user |-> cb.user,
                 detected |-> Upper(OrElse(result[2], <<"?">>))])>>

\* (a variant whose echo names the sender remembered when it is delivered)
OnSuccessReadsMemory(cb, result) ==
    IF cb.kind = "send" THEN OnSuccessSends(cb, result)
    ELSE IF cb.kind = "auto" THEN OnSuccessIgnoresDetected(cb, result)
    ELSE IF ~Truthy(result[1]) THEN <<>>
    ELSE <<Call(IF cb.chat = "chatroom" THEN "echo_public" ELSE "echo_private",
                cb.where, "translated", StripWrappingQuotes(Strip(result[1])),
                [kind |-> "last", target |-> cb.target,
                 user |-> (IF cb.chat = "chatroom" THEN last_public[cb.where]
                           ELSE last_private[cb.where])[1],
                 detected |-> <<>>])>>

\* the calls to the host made by on_success(result)
OnSuccess(cb, result) ==
    LET translated == result[1]
        detected == result[2]
        clean == StripWrappingQuotes(Strip(translated))
    IN  IF ~Truthy(translated) THEN <<>>
        ELSE IF cb.kind = "send"
        THEN IF cb.chat = "chatroom"
             THEN <<Call("send_public", cb.where, "translated", clean, NoLabel)>>
             ELSE <<Call("send_private", cb.where, "translated", clean, NoLabel)>>
        ELSE IF cb.kind = "echo"
        THEN LET label == [kind |-> "last", target |-> cb.target,
                           user |-> cb.user, detected |-> <<>>]
             IN  IF cb.chat = "chatroom"
                 THEN <<Call("echo_public", cb.where, "translated", clean, label)>>
                 ELSE <<Call("echo_private", cb.where, "translated", clean, label)>>
        ELSE IF (Truthy(detected) /\ Len(detected) >= 2
                 /\ SubSeq(Upper(detected), 1, 2) = LangEN)
                \/ Strip(translated) = Strip(cb.line)
        THEN <<>>
        ELSE LET label == [kind |-> "auto", target |-> cb.target, user |-> cb.user,
                           detected |-> Upper(OrElse(detected, <<"?">>))]
             IN  IF cb.chat = "chatroom"
                 THEN <<Call("echo_public", cb.where, "translated", translated, label)>>
                 ELSE <<Call("echo_private", cb.where, "translated", translated, label)>>

\* what a run of deliver does in context ctx for thread t, whose record
\* is th
DeliverOutcome(t, th, ctx) ==
    LET calls == DeliverCalls(th.result, th.silent)
    IN  [Outcome("deliver", ctx, th.on_success.where, NoName, <<>>, "none", "None",
                 IF calls THEN OnSuccess(th.on_success, th.result) ELSE <<>>,
                 <<>>)
         EXCEPT !.thread = t, !.on_success = th.on_success, !.silent = th.silent,
                !.called = calls, !.result = th.result, !.reported = th.out]

\* (a variant in which the worker calls deliver() itself)
WorkerCallsDirectly(t) ==
    /\ MainIdle
    /\ threads[t].pc = "started"
    /\ \E resp \in Responses(threads[t].text) :
          LET th == threads[t]
              res == TranslateAndDetect(settings, th.text, th.target_lang, resp)
              done == [th EXCEPT !.result = res.ret]
              out == DeliverOutcome(t, done, "worker")
          IN  /\ ~res.raised
              /\ step' = out
              /\ threads' = [threads EXCEPT
                    ![t] = Ended(done, IF out.called THEN "called" ELSE "dropped",
                                 IF out.called THEN 1 ELSE 0)]
    /\ UNCHANGED <<settings, config, last_public, last_private, main_queue, nevents,
                   helper>>

\* worker(): result = self._translate_and_detect(text, target_lang) with
\* the settings as they are when the worker runs, then
\* events.invoke_main_thread(deliver).  An exception that leaves
\* _translate_and_detect ends the thread before deliver is scheduled.
Worker(t) ==
    /\ MainIdle
    /\ threads[t].pc = "started"
    /\ \E resp \in Responses(threads[t].text) :
          LET th == threads[t]
              res == TranslateAndDetect(settings, th.text, th.target_lang, resp)
              requests == IF res.sent THEN <<res.req>> ELSE <<>>
          IN  IF res.raised
              THEN /\ threads' = [threads EXCEPT
                          ![t] = [Ended(th, "crashed", 0) EXCEPT !.requests = requests]]
                   /\ main_queue' = main_queue
              ELSE /\ threads' = [threads EXCEPT ![t].pc = "scheduled",
                                                 ![t].requests = requests,
                                                 ![t].out = res.out,
                                                 ![t].result = res.ret]
                   /\ main_queue' = Append(main_queue, t)
    /\ UNCHANGED <<settings, config, last_public, last_private, step, nevents,
                   helper>>

\* the host's main loop runs the next scheduled callback
Deliver ==
    /\ MainIdle
    /\ main_queue # <<>>
    /\ LET t == Head(main_queue)
           out == DeliverOutcome(t, threads[t], "main")
       IN  /\ step' = out
           /\ threads' = [threads EXCEPT
                 ![t] = IF out.called THEN Ended(threads[t], "called", threads[t].calls + 1)
                        ELSE Ended(threads[t], "dropped", threads[t].calls)]
    /\ main_queue' = Tail(main_queue)
    /\ UNCHANGED <<settings, config, last_public, last_private, nevents, helper>>

\* ------------------------------------------------------------------------
\* The commands
\* ------------------------------------------------------------------------

VersionAliases ==
    {<<"v", "e", "r", "s", "i", "o", "n">>, <<"-", "v">>,
     <<"-", "-", "v", "e", "r", "s", "i", "o", "n">>}

HelpAliases ==
    {<<"h", "e", "l", "p">>, <<"-", "h">>, <<"-", "-", "h", "e", "l", "p">>, <<"?">>}

\* tokens = shlex.split(args), or args.split() on ValueError
Tokenize(args) ==
    IF ShlexSplit(args).ok THEN ShlexSplit(args).tokens ELSE Split(args)

\* (a variant that leaves the language token in the text)
ParseArgumentsKeepsToken(tokens) ==
    [target_lang |-> IF LooksLikeLang(StripWrappingQuotes(tokens[1]))
                     THEN StripWrappingQuotes(tokens[1]) ELSE None,
     text |-> JoinSpace(tokens)]

\* lines 101-108 of translate_command: the target language (None when the
\* first token is no language code) and the text
ParseArguments(tokens) ==
    LET first_clean == StripWrappingQuotes(tokens[1])
    IN  IF LooksLikeLang(first_clean)
        THEN [target_lang |-> first_clean, text |-> JoinSpace(Tail(tokens))]
        ELSE [target_lang |-> None, text |-> JoinSpace(tokens)]

\* What translate_command(args, user, room) does when the provider would
\* answer resp: ret is the returned value ("raised" when an exception
\* leaves the handler), calls the calls to the host, called whether
\* _translate_via_deepl was called and client what it did.
CommandResult(ret, mode, calls, called, client) ==
    [ret |-> ret, mode |-> mode, calls |-> calls, called |-> called,
     client |-> client]

NoClient == ClientResult(FALSE, NoRequest, <<>>, FALSE, None)

ClientOutputs(client) == [i \in 1..Len(client.out) |-> LocalOutput(client.out[i])]

\* the part of translate_command after the text to translate is known:
\* op is the call that delivers the translation
TranslateAndDeliver(mode, text, target_lang, op, where, resp) ==
    LET client == TranslateViaDeepl(settings, text, target_lang, resp)
        translated == StripWrappingQuotes(Strip(client.ret))
    IN  IF client.raised
        THEN CommandResult("raised", mode, ClientOutputs(client), TRUE, client)
        ELSE IF client.ret = None
        THEN CommandResult("False", mode, ClientOutputs(client), TRUE, client)
        ELSE CommandResult("True", mode,
                           Append(ClientOutputs(client),
                                  Call(op, where, "translated", translated, NoLabel)),
                           TRUE, client)

TranslateCommandResult(args, user, room, resp) ==
    LET lowered == Lower(Strip(args))
        tokens == Tokenize(args)
        parsed == ParseArguments(tokens)
    IN  IF lowered \in VersionAliases
        THEN CommandResult("True", "none", <<LocalOutput("version")>>, FALSE, NoClient)
        ELSE IF lowered \in HelpAliases
        THEN CommandResult("True", "none", <<LocalOutput("help")>>, FALSE, NoClient)
        ELSE IF tokens = <<>>
        THEN CommandResult("False", "none", <<LocalOutput("usage")>>, FALSE, NoClient)
        ELSE IF Strip(parsed.text) = <<>>
        THEN IF room # NoName
             THEN IF Get(last_public, room) = <<>>
                  THEN CommandResult("False", "none", <<LocalOutput("no_recent")>>,
                                     FALSE, NoClient)
                  ELSE TranslateAndDeliver("remembered", Get(last_public, room)[2],
                                           parsed.target_lang, "echo_public", room, resp)
             ELSE IF user # NoName
             THEN IF Get(last_private, user) = <<>>
                  THEN CommandResult("False", "none", <<LocalOutput("no_recent")>>,
                                     FALSE, NoClient)
                  ELSE TranslateAndDeliver("remembered", Get(last_private, user)[2],
                                           parsed.target_lang, "echo_private", user, resp)
             ELSE CommandResult("False", "none", <<LocalOutput("nothing")>>,
                                FALSE, NoClient)
        ELSE TranslateAndDeliver("typed", parsed.text, parsed.target_lang,
                                 IF room # NoName THEN "send_public"
                                 ELSE IF user # NoName THEN "send_private"
                                 ELSE "output",
                                 IF room # NoName THEN room ELSE user, resp)

\* the text translate_command hands to _translate_via_deepl, if any
CommandSource(args, user, room) ==
    LET res == TranslateCommandResult(args, user, room, RespTransport)
    IN  IF res.called /\ res.client.sent THEN res.client.req.text ELSE <<>>

\* the user and room the host passes to a command: a room's command line,
\* a private chat's, or neither
CommandContexts ==
    {<<NoName, room>> : room \in Rooms} \cup {<<peer, NoName>> : peer \in Peers}
        \cup {<<NoName, NoName>>}

\* /translate: the whole handler runs on the main thread, the call of
\* urlopen included
TranslateCommand(args, user, room) ==
    /\ CanStartEvent
    /\ \E resp \in Responses(CommandSource(args, user, room)) :
          LET res == TranslateCommandResult(args, user, room, resp)
          IN  step' = Outcome("translate_command", "main",
                              IF room # NoName THEN room ELSE user, NoName, args,
                              res.mode, res.ret, res.calls,
                              IF res.client.sent THEN <<res.client.req>> ELSE <<>>)
    /\ nevents' = nevents + 1
    /\ UNCHANGED <<settings, config, last_public, last_private, threads, main_queue>>

\* /trver and /trhelp
VersionCommand ==
    /\ CanStartEvent
    /\ step' = Outcome("version_command", "main", NoName, NoName, <<>>, "none",
                       "True", <<LocalOutput("version")>>, <<>>)
    /\ nevents' = nevents + 1
    /\ UNCHANGED <<settings, config, last_public, last_private, threads, main_queue>>

TranslateHelpCommand ==
    /\ CanStartEvent
    /\ step' = Outcome("translate_help_command", "main", NoName, NoName, <<>>, "none",
                       "True", <<LocalOutput("help")>>, <<>>)
    /\ nevents' = nevents + 1
    /\ UNCHANGED <<settings, config, last_public, last_private, threads, main_queue>>

\* str.strip('"\'')
RECURSIVE StripQuoteChars(_)
StripQuoteChars(s) ==
    IF s # <<>> /\ Head(s) \in QuoteChars THEN StripQuoteChars(Tail(s))
    ELSE IF s # <<>> /\ s[Len(s)] \in QuoteChars
    THEN StripQuoteChars(SubSeq(s, 1, Len(s) - 1))
    ELSE s

IncomingLangArgs == {<<" ", "'", "F", "R", "\"">>, <<"e", "1">>, <<"'", "'">>}

\* (a variant that stores the argument without validating it)
SetIncomingLangCommandUnchecked(args) ==
    LET lang == StripQuoteChars(Strip(args))
    IN  /\ CanStartEvent
        /\ settings' = [settings EXCEPT !.auto_incoming_target_lang = lang]
        /\ config' = lang
        /\ step' = Outcome("set_incoming_lang_command", "main", NoName, NoName,
                            args, "none", "True",
                            <<LocalOutput("incoming_set")>>, <<>>)
        /\ nevents' = nevents + 1
        /\ UNCHANGED <<last_public, last_private, threads, main_queue>>

\* /trincoming
SetIncomingLangCommand(args) ==
    LET lang == StripQuoteChars(Strip(args))
    IN  /\ CanStartEvent
        /\ IF ~LooksLikeLang(lang)
           THEN /\ step' = Outcome("set_incoming_lang_command", "main", NoName, NoName,
                                   args, "none", "False",
                                   <<LocalOutput("invalid_lang")>>, <<>>)
                /\ UNCHANGED <<settings, config>>
           ELSE /\ settings' = [settings EXCEPT !.auto_incoming_target_lang = lang]
                /\ config' = lang
                /\ step' = Outcome("set_incoming_lang_command", "main", NoName, NoName,
                                   args, "none", "True",
                                   <<LocalOutput("incoming_set")>>, <<>>)
        /\ nevents' = nevents + 1
        /\ UNCHANGED <<last_public, last_private, threads, main_queue>>

\* The user edits one setting in the host's preferences (the fields of
\* metasettings); the host stores the value in self.settings.
EditSettings ==
    /\ CanStartEvent
    /\ \/ \E key \in ApiKeys \ {settings.api_key} :
             settings' = [settings EXCEPT !.api_key = key]
       \/ settings' = [settings EXCEPT !.preserve_formatting = ~@]
       \/ settings' = [settings EXCEPT !.auto_translate_incoming = ~@]
    /\ step' = Outcome("settings", "main", NoName, NoName, <<>>, "none", "None",
                       <<>>, <<>>)
    /\ nevents' = nevents + 1
    /\ UNCHANGED <<config, last_public, last_private, threads, main_queue>>

\* ------------------------------------------------------------------------
\* The system
\* ------------------------------------------------------------------------

Event ==
    \/ \E args \in CommandArgs, c \in CommandContexts : TranslateCommand(args, c[1], c[2])
    \/ VersionCommand
    \/ TranslateHelpCommand
    \/ \E args \in IncomingLangArgs : SetIncomingLangCommand(args)
    \/ EditSettings
    \/ \E room \in Rooms, user \in Users, line \in IncomingLines :
          IncomingPublicChatNotification(room, user, line)
    \/ \E user \in Users, line \in IncomingLines :
          IncomingPrivateChatNotification(user, line)
    \/ \E room \in Rooms, line \in OutgoingLines : OutgoingPublicChatEvent(room, line)
    \/ \E user \in Peers, line \in OutgoingLines : OutgoingPrivateChatEvent(user, line)

Next ==
    \/ CanStartEvent /\ Event /\ UNCHANGED helper
    \/ Return
    \/ \E t \in 1..Len(threads) : Worker(t)
    \/ Deliver

Spec == Init /\ [][Next]_vars

\* The plugin some time after start-up: a key is configured, the user has
\* turned auto-translation off, and the room and the peer each have a
\* remembered message, the room's from a user who has since gone quiet.
EarlierSpeaker == "bob"

InitRemembered ==
    /\ settings = [DefaultSettings EXCEPT !.api_key = ApiKey,
                                          !.auto_translate_incoming = FALSE]
    /\ config = LangENGB
    /\ last_public = [r \in Rooms |-> <<EarlierSpeaker, Hi>>]
    /\ last_private = [u \in Users |-> IF u \in Peers THEN <<u, Hi>> ELSE <<>>]
    /\ threads = <<>>
    /\ main_queue = <<>>
    /\ step = Idle
    /\ nevents = 0
    /\ helper = NoHelperCall

SpecRemembered == InitRemembered /\ [][Next]_vars

\* ------------------------------------------------------------------------
\* The static helpers called on their own: _strip_wrapping_quotes and
\* _looks_like_lang applied to every string of up to MaxArgLen characters
\* of HelperChars, alone and followed by enough letters to reach and pass
\* the longest language token.
\* ------------------------------------------------------------------------

HelperChars == {"\"", "'", "a", "-", "_", "1"}

RECURSIVE StringsUpTo(_)
StringsUpTo(n) ==
    IF n = 0 THEN {<<>>}
    ELSE LET shorter == StringsUpTo(n - 1)
         IN  shorter \cup {Append(str, ch) : str \in shorter, ch \in HelperChars}

Letters(n) == [i \in 1..n |-> "a"]

HelperArgs ==
    {str \o pad : str \in StringsUpTo(MaxArgLen),
                  pad \in {<<>>, Letters(LangTokenMaxLen + 1 - MaxArgLen)}}

HelperInit ==
    /\ settings = DefaultSettings
    /\ config = LangENGB
    /\ last_public = [r \in Rooms |-> <<>>]
    /\ last_private = [u \in Users |-> <<>>]
    /\ threads = <<>>
    /\ main_queue = <<>>
    /\ step = Idle
    /\ nevents = 0
    /\ \E arg \in HelperArgs : helper = HelperCall("none", arg, <<>>, FALSE, 0)

\* text = Plugin._strip_wrapping_quotes(text)
StripWrappingQuotesCall ==
    /\ helper.fn = "none"
    /\ helper' = HelperCall("_strip_wrapping_quotes", helper.arg,
                            StripWrappingQuotes(helper.arg), FALSE, 1)
    /\ UNCHANGED <<settings, config, last_public, last_private, threads,
                   main_queue, step, nevents>>

\* the result of _strip_wrapping_quotes is given to it again
StripWrappingQuotesAgain ==
    /\ helper.fn = "_strip_wrapping_quotes"
    /\ helper.n = 1
    /\ helper' = HelperCall("_strip_wrapping_quotes", helper.str,
                            StripWrappingQuotes(helper.str), FALSE, 2)
    /\ UNCHANGED <<settings, config, last_public, last_private, threads,
                   main_queue, step, nevents>>

\* Plugin._looks_like_lang(token)
LooksLikeLangCall ==
    /\ helper.fn = "none"
    /\ helper' = HelperCall("_looks_like_lang", helper.arg, <<>>,
                            LooksLikeLang(helper.arg), 1)
    /\ UNCHANGED <<settings, config, last_public, last_private, threads,
                   main_queue, step, nevents>>

HelperNext ==
    \/ StripWrappingQuotesCall
    \/ StripWrappingQuotesAgain
    \/ LooksLikeLangCall

HelperSpec == HelperInit /\ [][HelperNext]_vars

\* ------------------------------------------------------------------------
\* Properties
\* ------------------------------------------------------------------------

SendOps == {"send_public", "send_private"}
EchoOps == {"echo_public", "echo_private"}

SendOpAt(where) == IF where \in Rooms THEN "send_public" ELSE "send_private"
EchoOpAt(where) == IF where \in Rooms THEN "echo_public" ELSE "echo_private"

Ops(calls) == {calls[i].op : i \in DOMAIN calls}

IsCommand == step.handler = "translate_command"
IsDeliver == step.handler = "deliver"
IsOutgoing == step.handler \in {"outgoing_public", "outgoing_private"}

\* a handler or scheduled callback starts in this step
Begins == MainIdle /\ ~MainIdle'

\* C1: on_success is only ever called by a run of deliver in the main
\* context, which the main loop takes from the head of its queue of
\* scheduled callbacks while no other handler or callback is running; while
\* a handler or callback runs, the only step of the main context is its
\* return.
C1_CallbackOnMainContext ==
    /\ [](step.called => IsDeliver /\ step.ctx = "main")
    /\ [][(step'.called /\ step' # step) =>
             /\ MainIdle
             /\ main_queue # <<>>
             /\ step'.thread = Head(main_queue)
             /\ main_queue' = Tail(main_queue)]_vars
    /\ [][~MainIdle => (step' = step \/ step' = Idle)]_vars

\* a callback runs on the main context while another request is in flight
C1_Witness ==
    /\ IsDeliver /\ step.called /\ step.ctx = "main"
    /\ \E t \in DOMAIN threads : threads[t].pc \in {"started", "scheduled"}

\* C2: no handler or callback of the main context calls urlopen.
C2_NoRequestOnMainContext == step.ctx = "main" => step.requests = <<>>

\* C3: an invocation that translates the remembered message never sends:
\* the command makes no send and, when it succeeds, exactly one echo where
\* it was invoked; the shortcut makes no call itself and starts one thread
\* whose closure, when delivered, makes no send and at most one call, an
\* echo where the shortcut was typed (exactly one when the translated text
\* is not empty).
C3_RememberedOnlyEchoed ==
    /\ (IsCommand /\ step.mode = "remembered") =>
          /\ Ops(step.calls) \cap SendOps = {}
          /\ step.started = 0
          /\ step.ret = "True" =>
                /\ Len(step.calls) = 1
                /\ step.calls[1].op = EchoOpAt(step.where)
                /\ step.calls[1].where = step.where
    /\ (IsOutgoing /\ step.mode = "remembered") =>
          /\ step.calls = <<>>
          /\ step.started = 1
          /\ threads[Len(threads)].on_success.kind = "echo"
          /\ threads[Len(threads)].on_success.where = step.where
    /\ (IsDeliver /\ step.on_success.kind = "echo") =>
          /\ Len(step.calls) <= 1
          /\ \A i \in DOMAIN step.calls :
                /\ step.calls[i].op = EchoOpAt(step.on_success.where)
                /\ step.calls[i].where = step.on_success.where
          /\ Truthy(step.result[1]) => Len(step.calls) = 1

\* the translation of a remembered message is echoed by its callback
C3_Witness ==
    /\ IsDeliver /\ step.on_success.kind = "echo"
    /\ Len(step.calls) = 1 /\ step.calls[1].op \in EchoOps

\* C4: an invocation that translates the text just typed makes, when the
\* translation succeeded, exactly one call: a send to the room or peer it
\* was typed in (an output for a command with neither); when it failed,
\* no send.
C4_TypedSentOnce ==
    /\ (IsCommand /\ step.mode = "typed") =>
          IF step.ret = "True"
          THEN /\ Len(step.calls) = 1
               /\ step.calls[1].where = step.where
               /\ step.calls[1].op =
                     IF step.where = NoName THEN "output" ELSE SendOpAt(step.where)
          ELSE Ops(step.calls) \cap SendOps = {}
    /\ (IsDeliver /\ step.on_success.kind = "send") =>
          IF step.result[1] # None
          THEN /\ Len(step.calls) = 1
               /\ step.calls[1].where = step.on_success.where
               /\ step.calls[1].op = SendOpAt(step.on_success.where)
          ELSE step.calls = <<>>

\* the line is an inline shortcut: optional whitespace, "@", a letter and
\* at least one more letter, hyphen or underscore
IsInlineShortcut(line) ==
    \E i \in 1..Len(line) :
        /\ i + 2 <= Len(line)
        /\ \A j \in 1..(i - 1) : line[j] \in Whitespace
        /\ line[i] = "@"
        /\ line[i + 1] \in AsciiLetters
        /\ IsLangChar(line[i + 2])

\* C5: an outgoing chat event returns "zap" exactly when its line is an
\* inline shortcut; for any other line it returns None, starts no thread
\* and makes no call to the host.
C5_SuppressedIffShortcut ==
    IsOutgoing =>
       /\ step.ret = "zap" <=> IsInlineShortcut(step.line)
       /\ ~IsInlineShortcut(step.line) =>
             step.ret = "None" /\ step.started = 0 /\ step.calls = <<>>

\* a line with "@" that is no shortcut is left alone
C5_Witness ==
    /\ IsOutgoing /\ step.ret = "None"
    /\ \E i \in DOMAIN step.line : step.line[i] = "@"

\* C6: the memories change only when an incoming line arrives: the entry
\* of its room (of its sender, for a private line) becomes <<sender, line>>
\* when the sender is not the local user and is left alone when it is;
\* whatever the auto-translate setting; no entry names the local user.
C6_MemoryIsLastForeignLine ==
    /\ [](/\ \A r \in Rooms : last_public[r] # <<>> => last_public[r][1] # LoginUsername
          /\ \A u \in Users : last_private[u] # <<>> => last_private[u][1] # LoginUsername)
    /\ [][/\ last_public' =
                IF Begins /\ step'.handler = "incoming_public"
                          /\ step'.user # LoginUsername
                THEN [last_public EXCEPT ![step'.where] = <<step'.user, step'.line>>]
                ELSE last_public
          /\ last_private' =
                IF Begins /\ step'.handler = "incoming_private"
                          /\ step'.user # LoginUsername
                THEN [last_private EXCEPT ![step'.user] = <<step'.user, step'.line>>]
                ELSE last_private]_vars

\* the local user's own line arrives in a room with a remembered message
C6_Witness ==
    /\ step.handler = "incoming_public" /\ step.user = LoginUsername
    /\ last_public[step.where] # <<>>

\* C7: deliver calls on_success when the translated text is present, does
\* not call it when the text is absent and the request is not silent, and
\* calls it with the absent result when the text is absent and the request
\* is silent; no thread's on_success is called twice.
C7_DeliveryRule ==
    /\ IsDeliver =>
          /\ step.result[1] # None => step.called
          /\ (step.result[1] = None /\ ~step.silent) => ~step.called
          /\ (step.result[1] = None /\ step.silent) => step.called
          /\ step.called <=> threads[step.thread].pc = "called"
    /\ \A t \in DOMAIN threads :
          /\ threads[t].calls <= 1
          /\ threads[t].calls = 1 <=> threads[t].pc = "called"

\* the absent result of a silent request is delivered
C7_Witness == IsDeliver /\ step.silent /\ step.result[1] = None /\ step.called

\* C8: when deliver skips on_success for a request that is not silent (a
\* failed translation the user asked for with an inline shortcut), the
\* thread's client had given an error message to self.output.
C8_SkippedCallbackWasReported ==
    (IsDeliver /\ ~step.silent /\ ~step.called) => step.reported # <<>>

\* C9: with a blank API key no call of urlopen is made, by the command or
\* by a worker, and a command that has a text to translate gives the one
\* message "unconfigured" to self.output and returns False; every request
\* issued carries a key that is not blank.
C9_NoRequestWithoutKey ==
    /\ []((IsCommand /\ Strip(settings.api_key) = <<>>) =>
             /\ step.requests = <<>>
             /\ step.mode # "none" =>
                   /\ step.calls = <<LocalOutput("unconfigured")>>
                   /\ step.ret = "False")
    /\ [](/\ \A i \in DOMAIN step.requests : Strip(step.requests[i].auth_key) # <<>>
          /\ \A t \in DOMAIN threads : \A i \in DOMAIN threads[t].requests :
                Strip(threads[t].requests[i].auth_key) # <<>>)
    /\ [][Strip(settings.api_key) = <<>> =>
             \A t \in DOMAIN threads :
                 threads[t].pc = "started" => threads'[t].requests = <<>>]_vars

\* the command refuses a key made of whitespace
C9_Witness ==
    /\ IsCommand /\ settings.api_key = <<" ">>
    /\ step.calls = <<LocalOutput("unconfigured")>> /\ step.ret = "False"

\* C10: no worker thread ends without having scheduled deliver.
C10_WorkerAlwaysSchedules == \A t \in DOMAIN threads : threads[t].pc # "crashed"

IsIncoming == step.handler \in {"incoming_public", "incoming_private"}

\* the detected language starts with "EN", in any case
IsEnglishFamily(detected) ==
    /\ detected # None
    /\ Len(detected) >= 2
    /\ detected[1] \in {"E", "e"}
    /\ detected[2] \in {"N", "n"}

\* The notifier's rule for a delivered result whose text is present; an
\* empty text counts as "nothing to show" when emptyIsQuiet.
AutoEchoRule(emptyIsQuiet) ==
    (IsDeliver /\ step.on_success.kind = "auto" /\ step.result[1] # None) =>
       LET cb == step.on_success
           translated == step.result[1]
           detected == step.result[2]
       IN  /\ Ops(step.calls) \cap SendOps = {}
           /\ IF \/ IsEnglishFamily(detected)
                 \/ Strip(translated) = Strip(cb.line)
                 \/ (emptyIsQuiet /\ translated = <<>>)
              THEN step.calls = <<>>
              ELSE /\ Len(step.calls) = 1
                   /\ step.calls[1].op = EchoOpAt(cb.where)
                   /\ step.calls[1].where = cb.where
                   /\ step.calls[1].text = translated
                   /\ step.calls[1].label.kind = "auto"
                   /\ step.calls[1].label.user = cb.user
                   /\ step.calls[1].label.target = cb.target
                   /\ step.calls[1].label.detected =
                         IF detected = None THEN <<"?">> ELSE Upper(detected)

\* the closure an incoming line's thread carries is that of the line
AutoClosureIsOfTheLine ==
    (IsIncoming /\ step.started = 1) =>
       LET th == threads[Len(threads)]
       IN  /\ th.silent
           /\ th.text = step.line
           /\ th.on_success.kind = "auto"
           /\ th.on_success.where = step.where
           /\ th.on_success.user = step.user
           /\ th.on_success.line = step.line
           /\ th.on_success.target = th.target_lang

\* C11 (as claimed): when the translation of an incoming line succeeds, the
\* notifier echoes nothing if the detected language is English-family or
\* the translated text equals the line modulo surrounding whitespace, and
\* otherwise makes exactly one labelled echo where the line arrived; it
\* never sends.
C11_AutoEchoAsClaimed == AutoEchoRule(FALSE) /\ AutoClosureIsOfTheLine

\* C11 (amended): as claimed, except that a translated text that is
\* present but empty is echoed nowhere either.
C11_AutoEchoRule == AutoEchoRule(TRUE) /\ AutoClosureIsOfTheLine

\* a translation whose language was not detected is echoed with "?"
C11_Witness ==
    /\ IsDeliver /\ step.on_success.kind = "auto"
    /\ Len(step.calls) = 1
    /\ step.calls[1].label.detected = <<"?">>

\* the failure kinds: no key configured, transport failure, a body that
\* is not JSON, an error payload or any payload without translations
IsFailure(key, resp) ==
    \/ Strip(key) = <<>>
    \/ resp.kind \in {"transport", "not_json"}
    \/ resp.kind = "object" /\ resp.translations \in {"absent", "empty"}

Remembered(where) ==
    IF where \in Rooms THEN last_public[where] ELSE last_private[where]

\* the command's arguments are one language token, quoted or not, that
\* is not one of the words the command takes for version or help
IsLanguageOnly(args) ==
    /\ LooksLikeLang(StripWrappingQuotes(Strip(args)))
    /\ Lower(Strip(args)) \notin VersionAliases \cup HelpAliases

\* C13: a language-only command in a room or private chat without a
\* remembered message gives the one message "no recent message" to
\* self.output, calls neither urlopen nor _async_translate, and returns
\* False; a shortcut without trailing text does the same and returns
\* "zap"; neither changes the memories.
C13_NoPriorMessage ==
    /\ []((/\ IsCommand /\ IsLanguageOnly(step.line)
           /\ step.where # NoName /\ Remembered(step.where) = <<>>) =>
             /\ step.calls = <<LocalOutput("no_recent")>>
             /\ step.requests = <<>>
             /\ step.started = 0
             /\ step.ret = "False")
    /\ []((/\ IsOutgoing /\ IsInlineShortcut(step.line)
           /\ ShortcutMatch(step.line).rest = <<>>
           /\ Remembered(step.where) = <<>>) =>
             /\ step.calls = <<LocalOutput("no_recent")>>
             /\ step.requests = <<>>
             /\ step.started = 0
             /\ step.ret = "zap")
    /\ [][(Begins /\ step'.handler \in {"translate_command", "outgoing_public",
                                        "outgoing_private"}) =>
             (last_public' = last_public /\ last_private' = last_private
              /\ (step'.started = 0 => threads' = threads))]_vars

\* a language-only command in a private chat without a remembered message
C13_Witness ==
    /\ IsCommand /\ IsLanguageOnly(step.line) /\ step.where \in Peers
    /\ last_private[step.where] = <<>>
    /\ step.calls = <<LocalOutput("no_recent")>>

\* 1 to 10 characters, each a letter, a hyphen or an underscore
IsLangToken(token) ==
    /\ Len(token) \in 1..LangTokenMaxLen
    /\ \A i \in DOMAIN token : token[i] \in AsciiLetters \cup {"-", "_"}

\* C14: /trincoming with an argument that, stripped of surrounding
\* whitespace and quote characters, is no language token gives an error
\* message to self.output, returns False and changes nothing; with one
\* that is, it sets the setting auto_incoming_target_lang and the host's
\* config entry to the token and returns True.  It changes no other
\* setting, no memory and starts no thread.
C14_IncomingTargetValidated ==
    [][(Begins /\ step'.handler = "set_incoming_lang_command") =>
          LET lang == StripQuoteChars(Strip(step'.line))
          IN  /\ IF IsLangToken(lang)
                 THEN /\ settings' = [settings EXCEPT !.auto_incoming_target_lang = lang]
                      /\ config' = lang
                      /\ step'.ret = "True"
                      /\ step'.calls = <<LocalOutput("incoming_set")>>
                 ELSE /\ settings' = settings
                      /\ config' = config
                      /\ step'.ret = "False"
                      /\ step'.calls = <<LocalOutput("invalid_lang")>>
              /\ last_public' = last_public
              /\ last_private' = last_private
              /\ threads' = threads
              /\ main_queue' = main_queue]_vars

\* an argument with a digit was refused and the target is what it was
C14_Witness ==
    /\ step.handler = "set_incoming_lang_command"
    /\ step.line = <<"e", "1">>
    /\ step.ret = "False"
    /\ settings.auto_incoming_target_lang = LangENGB /\ config = LangENGB

\* The parsing rule seen from a run of the command whose arguments have a
\* first token: the target language and text the rule gives are those of
\* the request the command issues; a command whose text is empty
\* translates the remembered message instead, if there is one.
ParsingRule(args) ==
    LET tokens == Tokenize(args)
        first == StripWrappingQuotes(tokens[1])
        target == IF IsLangToken(first) THEN first
                  ELSE OrElse(settings.target_lang, LangENUS)
        text == IF IsLangToken(first) THEN JoinSpace(Tail(tokens))
                ELSE JoinSpace(tokens)
    IN  IF Strip(text) # <<>>
        THEN /\ step.mode = "typed"
             /\ \A i \in DOMAIN step.requests :
                   /\ step.requests[i].text = text
                   /\ step.requests[i].target_lang = target
        ELSE /\ step.mode = IF step.where # NoName /\ Remembered(step.where) # <<>>
                            THEN "remembered" ELSE "none"
             /\ \A i \in DOMAIN step.requests :
                   /\ step.requests[i].text = Remembered(step.where)[2]
                   /\ step.requests[i].target_lang = target

\* C15 (as claimed): for every argument string with a first token, the
\* command follows the parsing rule.
C15_ParsingAsClaimed ==
    (IsCommand /\ Tokenize(step.line) # <<>>) => ParsingRule(step.line)

\* C15 (amended): for every argument string with a first token that is
\* not one of the words for version or help, the command follows the
\* parsing rule, the text being the tokens joined by single spaces; it
\* issues a request whenever a key is configured and there is a text.
C15_ParsingRule ==
    (/\ IsCommand /\ Tokenize(step.line) # <<>>
     /\ Lower(Strip(step.line)) \notin VersionAliases \cup HelpAliases) =>
        /\ ParsingRule(step.line)
        /\ (step.mode # "none" /\ Strip(settings.api_key) # <<>>) =>
              Len(step.requests) = 1

\* "FR yo" was parsed to the target FR and the text "yo"
C15_Witness ==
    /\ IsCommand /\ step.line = ArgsTyped /\ Len(step.requests) = 1
    /\ step.requests[1].target_lang = LangFR
    /\ step.requests[1].text = Yo

\* C16: _strip_wrapping_quotes removes exactly the one pair of matching
\* quotes that wraps its argument, returns any other argument unchanged,
\* and applied to its own result returns it unchanged.
C16_QuoteNormalizerIdempotent ==
    helper.fn = "_strip_wrapping_quotes" =>
       /\ helper.str =
             IF /\ Len(helper.arg) >= 2
                /\ helper.arg[1] \in QuoteChars
                /\ helper.arg[Len(helper.arg)] = helper.arg[1]
             THEN SubSeq(helper.arg, 2, Len(helper.arg) - 1)
             ELSE helper.arg
       /\ helper.n = 2 => helper.str = helper.arg

\* C17: _looks_like_lang returns True for every string of 1 to 10
\* characters that are all letters, hyphens or underscores, and False
\* for every other string.
C17_ValidatorAcceptsTokens ==
    helper.fn = "_looks_like_lang" => (helper.ok <=> IsLangToken(helper.arg))

\* a string of 11 letters was refused
C17_Witness ==
    /\ helper.fn = "_looks_like_lang"
    /\ Len(helper.arg) = LangTokenMaxLen + 1
    /\ \A i \in DOMAIN helper.arg : helper.arg[i] \in AsciiLetters
    /\ ~helper.ok

\* the request the worker of thread t issues if it runs now
WorkerRequest(t) ==
    LET res == TranslateAndDetect(settings, threads[t].text,
                                  threads[t].target_lang, RespOk)
    IN  IF res.sent THEN <<res.req>> ELSE <<>>

\* C18: the request of a thread whose worker has not run yet is fixed
\* when the thread is started: no step of the main context changes the
\* request its worker will issue.
C18_RequestFixedAtDispatch ==
    [][\A t \in DOMAIN threads :
          (threads[t].pc = "started" /\ threads'[t].pc = "started") =>
             WorkerRequest(t)' = WorkerRequest(t)]_vars

\* C19: a shortcut without trailing text hands the remembered message and
\* its sender to its thread; the worker asks for the translation of that
\* text, deliver calls the closure the thread was started with, and the
\* echo names the sender and target the closure holds, whatever the
\* memory holds by then; deliver leaves the memories alone.
C19_EchoOfEntryAtTyping ==
    /\ []((IsOutgoing /\ step.mode = "remembered") =>
             LET th == threads[Len(threads)]
             IN  /\ th.text = Remembered(step.where)[2]
                 /\ th.on_success.user = Remembered(step.where)[1]
                 /\ th.on_success.where = step.where)
    /\ [][\A t \in DOMAIN threads :
             /\ threads[t].pc \in {"started", "scheduled"} =>
                   \/ threads'[t].pc \in {"called", "dropped", "crashed"}
                   \/ /\ threads'[t].text = threads[t].text
                      /\ threads'[t].on_success = threads[t].on_success
             /\ threads[t].pc = "started" =>
                   \A i \in DOMAIN threads'[t].requests :
                       threads'[t].requests[i].text = threads[t].text]_vars
    /\ [][(Begins /\ step'.handler = "deliver") =>
             /\ step'.on_success = threads[step'.thread].on_success
             /\ step'.result = threads[step'.thread].result
             /\ last_public' = last_public
             /\ last_private' = last_private]_vars
    /\ []((IsDeliver /\ step.on_success.kind = "echo") =>
             \A i \in DOMAIN step.calls :
                 /\ step.calls[i].label.user = step.on_success.user
                 /\ step.calls[i].label.target = step.on_success.target
                 /\ step.calls[i].text = StripWrappingQuotes(Strip(step.result[1])))

\* the echo names the sender of the earlier entry after a newer line has
\* overwritten it
C19_Witness ==
    /\ IsDeliver /\ step.on_success.kind = "echo" /\ Len(step.calls) = 1
    /\ step.calls[1].label.user = EarlierSpeaker
    /\ Remembered(step.on_success.where)[1] # EarlierSpeaker

\* C20: when the translation of a line typed with a shortcut is sent, no
\* line typed earlier in the same room or to the same peer, whose
\* translation has succeeded, is still waiting to be sent.
C20_SendsInTypingOrder ==
    (IsDeliver /\ step.on_success.kind = "send" /\ step.calls # <<>>) =>
       \A u \in 1..(step.thread - 1) :
           (/\ threads[u].on_success.kind = "send"
            /\ threads[u].on_success.where = step.on_success.where
            /\ threads[u].on_success.chat = step.on_success.chat) =>
              ~(threads[u].pc = "scheduled" /\ Truthy(threads[u].result[1]))

====
